---- MODULE Spec2Model ----
(***************************************************************************)
(* The VideoAnalyzer component (src/components/QuoteLibrary.tsx, second    *)
(* half) and the generation service (src/services/geminiService.ts) as a   *)
(* state machine.  One step is one task of the browser's event loop: a     *)
(* user command, the return of a remote call, the expiry of the retry      *)
(* timer, or the promise continuation that lands a result.  The length     *)
(* option (targetDuration) only selects a sentence of the prompt and is    *)
(* left out.  A step includes the render and the effects it triggers.      *)
(*                                                                         *)
(* App shows one view at a time.  Spec is the VideoAnalyzer; SpecLive adds *)
(* the fairness of the steps that do not wait for the user; SpecSchema     *)
(* adds answers that lack a property of the response schema; SpecProgress  *)
(* adds the interval of the progress bar; SpecLibrary is the QuoteLibrary  *)
(* component (first half of QuoteLibrary.tsx) with its rotation timer.     *)
(* SpecHandles follows the object URLs of the loaded file, with the view   *)
(* switches of App that unmount and mount the VideoAnalyzer.               *)
(***************************************************************************)
EXTENDS Integers, Sequences, FiniteSets, TLC

\* ------------------------------------------------------------------ bounds
\* Accepted submits (calls of analyzeVideoAndGenerateQuotes) in one run.
MaxSubmits == 2

\* ------------------------------------------------------- program constants
RetryBudget == 2
RetryDelayMs == 2000
DurationLimit == 300

\* The progress effect (QuoteLibrary.tsx:190-217): the interval callback
\* adds max(0.2, remaining * 0.05 * Math.random()) while the counter is
\* below 90, and the state is capped at 95.  Progress values are held in
\* tenths of a percent, so that 0.2 is 2.
ProgressUnit == 10
MinIncrement == 2
ProgressPlateau == 90
ProgressCeiling == 95

\* QuoteLibrary (QuoteLibrary.tsx:6-59): 8 quotes are visible, the rotation
\* runs every 120 ticks of the 1000 ms interval.
VisibleCount == 8
RotationPeriod == 120

\* ------------------------------------------------------------ value spaces
NULL == "null"
NullResult == << >>

AnalysisStatus == {"IDLE", "UPLOADING", "ANALYZING", "COMPLETED", "ERROR"}

\* The generatedQuotes arrays the remote model returns (the count is not
\* enforced): no quote, and two quotes in non-alphabetical order.
QuoteArrays == { << >>, <<"q2", "q1">> }

\* Topic strings are sequences of characters; " " is whitespace.
HOT_TOPICS == { <<"a">> }
TypedTopics == { << >>, <<" ">>, <<"b", " ">> }

\* Durations the video element can report for a loaded file (seconds).
ReportedDurations == {DurationLimit, DurationLimit + 1}

\* --------------------------------------------------------- error messages
\* (the user-facing texts of the component, rendered in ASCII)
MsgNotVideo == "please upload a valid video file"
MsgTooLongLoaded == "video longer than the limit (5 minutes), upload a shorter one"
MsgNeedInput == "upload a video or enter a topic"
MsgTooLongSubmit == "video longer than 5 minutes, cannot generate, replace the video"
MsgUnknown == "unknown error during analysis, retry"
MsgRewritten == "network transfer failed: compress the video or use a custom topic only"
MsgNoKey == "API Key not found in environment"
MsgNoResponse == "No response from Gemini"
MsgBlob == "Failed to convert blob to base64"
MsgSyntax == "Unexpected token in JSON"

\* Messages of the errors the remote call can throw ("" is an error that
\* carries no message).
MsgRpc == "Rpc failed due to xhr error, error code: 6"
Msg503 == "503 Service Unavailable"
MsgXhr == "xhr error"
MsgAuth == "API key not valid"
RemoteErrors == {MsgRpc, Msg503, MsgXhr, MsgAuth, ""}

\* String.prototype.includes, on the messages of the model.
Includes(msg, sig) ==
    CASE msg = MsgRpc -> sig \in {"Rpc failed", "xhr error", "code: 6"}
      [] msg = Msg503 -> sig = "503"
      [] msg = MsgXhr -> sig = "xhr error"
      [] OTHER -> FALSE

\* -------------------------------------------------------- pure functions
\* String.prototype.trim on a topic.
RECURSIVE TrimLeft(_)
TrimLeft(s) ==
    IF s = << >> THEN << >>
    ELSE IF Head(s) = " " THEN TrimLeft(Tail(s)) ELSE s

RECURSIVE TrimRight(_)
TrimRight(s) ==
    IF s = << >> THEN << >>
    ELSE IF s[Len(s)] = " " THEN TrimRight(SubSeq(s, 1, Len(s) - 1)) ELSE s

Trim(s) == TrimRight(TrimLeft(s))

\* The AnalysisResult objects a schema-conforming response parses to.
AnalysisResults ==
    { [transcription |-> "t", generatedQuotes |-> qs] : qs \in QuoteArrays }

\* What ai.models.generateContent resolves to: response.text is empty, is
\* not JSON, or is the JSON of an AnalysisResult.
Responses ==
    { [kind |-> "empty", value |-> NullResult],
      [kind |-> "unparsable", value |-> NullResult] }
    \cup { [kind |-> "json", value |-> <<v>>] : v \in AnalysisResults }

\* A property the parsed object does not have.
UNDEFINED == "undefined"

\* Responses whose text parses as JSON but lacks the transcription string.
DeviatingResponses ==
    { [kind |-> "json",
       value |-> << [transcription |-> UNDEFINED, generatedQuotes |-> <<"q2", "q1">>] >>] }

\* Variant of IsTransient that takes every error for a transient one.
IsTransientAnyError(msg) == TRUE

\* The condition under which generateWithRetry retries a thrown error.
IsTransient(msg) == Includes(msg, "Rpc failed") \/ Includes(msg, "503")

\* The prompt analyzeVideoAndGenerateQuotes composes.
BuildPrompt(videoFile, customInstruction, avoidQuotes) ==
    [ video |-> videoFile # NULL,
      theme |-> IF Trim(customInstruction) # << >> THEN "custom"
                ELSE IF videoFile = NULL THEN "fallback" ELSE "none",
      avoid |-> IF Len(avoidQuotes) > 0 THEN avoidQuotes ELSE << >> ]

\* Variant of UserMessage that rewrites the errors generateWithRetry retries.
UserMessageOfTransient(thrown) ==
    LET errorMessage == IF thrown = "" THEN MsgUnknown ELSE thrown
    IN  IF IsTransient(errorMessage) THEN MsgRewritten ELSE errorMessage

\* The message handleAnalyze's catch block shows for a thrown error.
UserMessage(thrown) ==
    LET errorMessage == IF thrown = "" THEN MsgUnknown ELSE thrown
    IN  IF Includes(errorMessage, "Rpc failed") \/ Includes(errorMessage, "xhr error")
           \/ Includes(errorMessage, "code: 6")
        THEN MsgRewritten
        ELSE errorMessage

\* Variant of MissingInput that does not trim the topic.
MissingInputNoTrim(f, topic) == f = NULL /\ topic = << >>

\* handleAnalyze's first check: neither a file nor a non-blank topic.
MissingInput(f, topic) == f = NULL /\ Trim(topic) = << >>

\* Variant of OverLimit that also refuses a file of exactly the limit.
OverLimitInclusive(f, duration) == f # NULL /\ duration >= DurationLimit

\* handleAnalyze's second check: a loaded file longer than the limit.
OverLimit(f, duration) == f # NULL /\ duration > DurationLimit

\* The disabled condition of the submit button.
SubmitDisabled(err, f, topic) ==
    (err # NULL /\ topic = << >>) \/ (f = NULL /\ topic = << >>)

\* Variant of AvoidQuotesSent that passes no history.
AvoidQuotesNone(history) == << >>

\* The avoidQuotes option handleAnalyze passes for a history.
AvoidQuotesSent(history) == history

\* Variant of AppendHistory that skips the quotes the history already holds.
AppendHistoryDedup(prev, quotes) ==
    prev \o SelectSeq(quotes, LAMBDA q : \A i \in 1..Len(prev) : prev[i] # q)

\* The functional update of generatedHistory on success.
AppendHistory(prev, quotes) == prev \o quotes

\* Variant of ShouldRetry that forgets the retry budget.
ShouldRetryUnbounded(retries, msg) == IsTransient(msg)

\* generateWithRetry's catch: retry or rethrow.
ShouldRetry(retries, msg) == retries > 0 /\ IsTransient(msg)

\* Variant of the reset handlers' update that keeps the history.
HistoryKept(prev) == prev

\* generatedHistory after each of the handlers that reset it.
HistoryOnNewFile(prev) == << >>
HistoryOnReupload(prev) == << >>
HistoryOnFullReset(prev) == << >>
HistoryOnTopicClick(prev) == << >>

\* The handler that produced a state, how it ended, and the error message
\* it handled (if any).
EventOf(name, outcome, detail) == [name |-> name, outcome |-> outcome, detail |-> detail]
Event(name, outcome) == EventOf(name, outcome, "")

\* The concatenation of a sequence of arrays.
RECURSIVE Flatten(_)
Flatten(arrays) ==
    IF arrays = << >> THEN << >> ELSE Head(arrays) \o Flatten(Tail(arrays))

\* ----------------------------------------------------------- QuoteLibrary
\* The category that selects the whole collection (rendered in ASCII).
ALL == "all"

\* The category tabs: ALL and the named categories, one of them without
\* any record.
CATEGORIES == {ALL, "mortgage", "workplace", "marriage", "money"}

\* The texts of the records, as sequences of characters.
QuoteTexts == << <<"A", "b">>, <<"b", "A", "c">>, <<"C">>, <<"a", "b", "C">> >>

\* The category of the record with the given id: 12, 5 and 3 records.
CategoryOf(id) ==
    IF id <= 12 THEN "mortgage" ELSE IF id <= 17 THEN "workplace" ELSE "marriage"

\* The built-in collection: 20 records with distinct ids.
BUILT_IN_QUOTES ==
    [ id \in 1..20 |-> [id |-> id, text |-> QuoteTexts[(id % 4) + 1],
                         category |-> CategoryOf(id)] ]

\* What the user types into the search field.
SearchTerms == { << >>, <<"a", "B">>, <<"c">>, <<" ">> }

\* Variant of ToLowerChar that leaves every character as it is.
ToLowerCharIdentity(ch) == ch

\* String.prototype.toLowerCase on one character.
ToLowerChar(ch) ==
    CASE ch = "A" -> "a"
      [] ch = "B" -> "b"
      [] ch = "C" -> "c"
      [] OTHER -> ch

ToLowerCase(str) == [i \in 1..Len(str) |-> ToLowerChar(str[i])]

\* String.prototype.includes.
StringIncludes(str, part) ==
    \E from \in 1..(Len(str) - Len(part) + 1) :
        SubSeq(str, from, from + Len(part) - 1) = part

\* Variant of Pool that never filters by category.
PoolOfAll(category) == BUILT_IN_QUOTES

\* refreshQuotes: the pool of the selected category.
Pool(category) ==
    IF category # ALL
    THEN SelectSeq(BUILT_IN_QUOTES, LAMBDA q : q.category = category)
    ELSE BUILT_IN_QUOTES

\* The outcomes of the random comparator considered: a draw is a rotation
\* offset and a direction.
ShuffleDraws == {0, 5} \X BOOLEAN

\* [...pool].sort(() => 0.5 - Math.random()): a permutation of the pool,
\* here the rotation by draw[1], reversed when draw[2].
Shuffle(pool, draw) ==
    LET n == Len(pool)
        rotated == [i \in 1..n |-> pool[((i - 1 + draw[1]) % n) + 1]]
    IN  IF draw[2] THEN [i \in 1..n |-> rotated[n + 1 - i]] ELSE rotated

\* Variant of Slice that takes one element more.
SliceOneMore(shuffled) ==
    SubSeq(shuffled, 1, IF Len(shuffled) < VisibleCount + 1 THEN Len(shuffled)
                        ELSE VisibleCount + 1)

\* shuffled.slice(0, 8)
Slice(shuffled) ==
    SubSeq(shuffled, 1, IF Len(shuffled) < VisibleCount THEN Len(shuffled)
                        ELSE VisibleCount)

\* displayQuotes: the search result over the whole collection while a
\* search term is set, the rotated subset otherwise.
DisplayQuotes(term, visible) ==
    IF term # << >>
    THEN SelectSeq(BUILT_IN_QUOTES,
                   LAMBDA q : StringIncludes(ToLowerCase(q.text), ToLowerCase(term)))
    ELSE visible

\* ------------------------------------------------------------------ state
VARIABLES
    status,             \* AnalysisStatus
    file,               \* NULL or the loaded File
    videoUrl,           \* NULL or the object URL of the loaded file
    videoDuration,      \* last duration reported by the video element
    result,             \* NullResult or <<AnalysisResult>>
    error,              \* NULL or the message shown
    customInstruction,  \* the topic field
    generatedHistory,   \* quotes generated so far in this context
    apiKey,             \* process.env.API_KEY is set
    metadataPending,    \* the video element has not yet reported a duration
    calls,              \* the calls of analyzeVideoAndGenerateQuotes not yet landed
    submitted,          \* number of accepted submits so far
    historyStale,       \* per entry of generatedHistory: came from a call made before the last reset
    landedSinceReset,   \* the quote arrays of the successful generations landed since the last reset
    lastEvent,          \* the handler that produced this state
    progress,           \* the progress state, in ProgressUnit-ths of a percent
    currentProgress,    \* the progress effect's local counter, same unit
    progressTimer,      \* the progress effect's interval is set
    searchTerm,         \* QuoteLibrary: the search field
    selectedCategory,   \* QuoteLibrary: the selected category tab
    visibleQuotes,      \* QuoteLibrary: the rotated subset
    timeRemaining,      \* QuoteLibrary: seconds to the next rotation
    objectUrls,         \* the object URLs created and not revoked
    currentView         \* App: the view that is mounted

vars == << status, file, videoUrl, videoDuration, result, error, customInstruction,
           generatedHistory, apiKey, metadataPending, calls, submitted,
           historyStale, landedSinceReset, lastEvent,
           progress, currentProgress, progressTimer,
           searchTerm, selectedCategory, visibleQuotes, timeRemaining,
           objectUrls, currentView >>

\* The state of QuoteLibrary.  App renders one of the two views at a time.
libraryVars == << searchTerm, selectedCategory, visibleQuotes, timeRemaining >>

\* The state of VideoAnalyzer and of the calls it made.
analyzerVars == << status, file, videoUrl, videoDuration, result, error, customInstruction,
                   generatedHistory, apiKey, metadataPending, calls, submitted,
                   historyStale, landedSinceReset,
                   progress, currentProgress, progressTimer, objectUrls >>

\* A promise continuation is queued: it runs before any further task.
MicrotaskPending == \E c \in calls : c.pc \in {"resolved", "rejected"}

\* Every pending call was made before the reset that is happening now.
MarkStale(cs) == { [c EXCEPT !.stale = TRUE] : c \in cs }

Init ==
    /\ status = "IDLE"
    /\ file = NULL
    /\ videoUrl = NULL
    /\ videoDuration = 0
    /\ result = NullResult
    /\ error = NULL
    /\ customInstruction = << >>
    /\ generatedHistory = << >>
    /\ apiKey \in BOOLEAN
    /\ metadataPending = FALSE
    /\ calls = {}
    /\ submitted = 0
    /\ historyStale = << >>
    /\ landedSinceReset = << >>
    /\ lastEvent = Event("init", "")
    /\ progress = 0
    /\ currentProgress = 0
    /\ progressTimer = FALSE
    /\ searchTerm = << >>
    /\ selectedCategory = ALL
    /\ visibleQuotes = << >>
    /\ timeRemaining = RotationPeriod
    /\ objectUrls = {}
    /\ currentView = "CREATE"

\* ------------------------------------------------------------ MediaIngest
\* The object URLs the browser can hand out.
BlobUrls == {"blob:1", "blob:2", "blob:3"}

\* URL.createObjectURL: a URL that no live object URL has.
CreateObjectURL == CHOOSE u \in BlobUrls : u \notin objectUrls

\* Variant of HandleFileChange whose rejection also discards the result and
\* the generated history.
HandleFileChangeClearing(isVideo) ==
    /\ ~MicrotaskPending
    /\ file = NULL
    /\ IF ~isVideo
       THEN /\ error' = MsgNotVideo
            /\ result' = NullResult
            /\ generatedHistory' = << >>
            /\ lastEvent' = Event("handleFileChange", "rejected")
            /\ UNCHANGED << status, file, videoUrl, videoDuration, customInstruction,
                            apiKey, metadataPending, calls, submitted,
                            historyStale, landedSinceReset >>
       ELSE /\ file' = "video"
            /\ videoUrl' = CreateObjectURL
            /\ error' = NULL
            /\ result' = NullResult
            /\ generatedHistory' = HistoryOnNewFile(generatedHistory)
            /\ status' = "IDLE"
            /\ metadataPending' = TRUE
            /\ calls' = MarkStale(calls)
            /\ historyStale' = << >>
            /\ landedSinceReset' = << >>
            /\ lastEvent' = Event("handleFileChange", "accepted")
            /\ UNCHANGED << videoDuration, customInstruction, apiKey, submitted >>

\* handleFileChange: the hidden file input changes.  It is opened from the
\* drop zone, which is rendered only while no file is loaded.
HandleFileChange(isVideo) ==
    /\ ~MicrotaskPending
    /\ file = NULL
    /\ IF ~isVideo
       THEN /\ error' = MsgNotVideo
            /\ lastEvent' = Event("handleFileChange", "rejected")
            /\ UNCHANGED << status, file, videoUrl, videoDuration, result, customInstruction,
                            generatedHistory, apiKey, metadataPending, calls, submitted,
                            historyStale, landedSinceReset >>
       ELSE /\ file' = "video"
            /\ videoUrl' = CreateObjectURL
            /\ error' = NULL
            /\ result' = NullResult
            /\ generatedHistory' = HistoryOnNewFile(generatedHistory)
            /\ status' = "IDLE"
            /\ metadataPending' = TRUE
            /\ calls' = MarkStale(calls)
            /\ historyStale' = << >>
            /\ landedSinceReset' = << >>
            /\ lastEvent' = Event("handleFileChange", "accepted")
            /\ UNCHANGED << videoDuration, customInstruction, apiKey, submitted >>

\* Variant of OnVideoMetadataLoaded that also sets the status to ERROR for
\* a file over the limit.
OnVideoMetadataLoadedFails(duration) ==
    /\ ~MicrotaskPending
    /\ metadataPending
    /\ videoDuration' = duration
    /\ error' = IF duration > DurationLimit THEN MsgTooLongLoaded ELSE error
    /\ status' = IF duration > DurationLimit THEN "ERROR" ELSE status
    /\ metadataPending' = FALSE
    /\ lastEvent' = Event("onVideoMetadataLoaded", "")
    /\ UNCHANGED << file, videoUrl, result, customInstruction, generatedHistory,
                    apiKey, calls, submitted, historyStale, landedSinceReset >>

\* onVideoMetadataLoaded: the video element reports the duration of its source.
OnVideoMetadataLoaded(duration) ==
    /\ ~MicrotaskPending
    /\ metadataPending
    /\ videoDuration' = duration
    /\ error' = IF duration > DurationLimit THEN MsgTooLongLoaded ELSE error
    /\ metadataPending' = FALSE
    /\ lastEvent' = Event("onVideoMetadataLoaded", "")
    /\ UNCHANGED << status, file, videoUrl, result, customInstruction, generatedHistory,
                    apiKey, calls, submitted, historyStale, landedSinceReset >>

\* Variant of Reupload that also discards the result.
ReuploadClearingResult ==
    /\ ~MicrotaskPending
    /\ file # NULL
    /\ status # "ANALYZING"
    /\ file' = NULL
    /\ videoUrl' = NULL
    /\ result' = NullResult
    /\ generatedHistory' = HistoryOnReupload(generatedHistory)
    /\ metadataPending' = FALSE
    /\ calls' = MarkStale(calls)
    /\ historyStale' = << >>
    /\ landedSinceReset' = << >>
    /\ lastEvent' = Event("reupload", "")
    /\ UNCHANGED << status, videoDuration, error, customInstruction, apiKey, submitted >>

\* reupload: shown while a file is loaded and status is not ANALYZING.
Reupload ==
    /\ ~MicrotaskPending
    /\ file # NULL
    /\ status # "ANALYZING"
    /\ file' = NULL
    /\ videoUrl' = NULL
    /\ generatedHistory' = HistoryOnReupload(generatedHistory)
    /\ metadataPending' = FALSE
    /\ calls' = MarkStale(calls)
    /\ historyStale' = << >>
    /\ landedSinceReset' = << >>
    /\ lastEvent' = Event("reupload", "")
    /\ UNCHANGED << status, videoDuration, result, error, customInstruction, apiKey, submitted >>

\* fullReset: the button of the results view (status COMPLETED and a result).
FullReset ==
    /\ ~MicrotaskPending
    /\ status = "COMPLETED"
    /\ result # NullResult
    /\ file' = NULL
    /\ videoUrl' = NULL
    /\ result' = NullResult
    /\ status' = "IDLE"
    /\ customInstruction' = << >>
    /\ generatedHistory' = HistoryOnFullReset(generatedHistory)
    /\ metadataPending' = FALSE
    /\ calls' = MarkStale(calls)
    /\ historyStale' = << >>
    /\ landedSinceReset' = << >>
    /\ lastEvent' = Event("fullReset", "")
    /\ UNCHANGED << videoDuration, error, apiKey, submitted >>

\* ------------------------------------------------------------------ topic
\* The topic input's onChange (disabled while ANALYZING).
SetCustomInstruction(topic) ==
    /\ ~MicrotaskPending
    /\ status # "ANALYZING"
    /\ topic # customInstruction
    /\ customInstruction' = topic
    /\ lastEvent' = Event("setCustomInstruction", "")
    /\ UNCHANGED << status, file, videoUrl, videoDuration, result, error, generatedHistory,
                    apiKey, metadataPending, calls, submitted, historyStale, landedSinceReset >>

\* handleTopicClick: a suggested-topic chip (disabled while ANALYZING).
HandleTopicClick(topic) ==
    /\ ~MicrotaskPending
    /\ status # "ANALYZING"
    /\ customInstruction' = topic
    /\ generatedHistory' = HistoryOnTopicClick(generatedHistory)
    /\ calls' = MarkStale(calls)
    /\ historyStale' = << >>
    /\ landedSinceReset' = << >>
    /\ lastEvent' = Event("handleTopicClick", "")
    /\ UNCHANGED << status, file, videoUrl, videoDuration, result, error, apiKey,
                    metadataPending, submitted >>

\* ---------------------------------------------------- GenerationOrchestrator
\* The call of analyzeVideoAndGenerateQuotes that handleAnalyze makes, run up
\* to its first suspension: without a credential it throws at once; with a
\* file it waits for blobToBase64; otherwise it reaches generateContent.
NewCall ==
    [ id |-> submitted + 1,
      params |-> BuildPrompt(file, customInstruction, AvoidQuotesSent(generatedHistory)),
      retries |-> RetryBudget,
      pc |-> IF ~apiKey THEN "rejected" ELSE IF file # NULL THEN "encoding" ELSE "call",
      attempts |-> IF apiKey /\ file = NULL THEN 1 ELSE 0,
      waited |-> 0,
      thrown |-> IF ~apiKey THEN MsgNoKey ELSE NULL,
      response |-> [kind |-> "none", value |-> NullResult],
      stale |-> FALSE ]

\* handleAnalyze, called by `handler` (the submit button or "another set").
HandleAnalyze(handler) ==
    IF MissingInput(file, customInstruction)
    THEN /\ error' = MsgNeedInput
         /\ lastEvent' = Event(handler, "missing")
         /\ UNCHANGED << status, file, videoUrl, videoDuration, result, customInstruction,
                         generatedHistory, apiKey, metadataPending, calls, submitted,
                         historyStale, landedSinceReset >>
    ELSE IF OverLimit(file, videoDuration)
    THEN /\ error' = MsgTooLongSubmit
         /\ lastEvent' = Event(handler, "overlimit")
         /\ UNCHANGED << status, file, videoUrl, videoDuration, result, customInstruction,
                         generatedHistory, apiKey, metadataPending, calls, submitted,
                         historyStale, landedSinceReset >>
    ELSE /\ submitted < MaxSubmits
         /\ status' = "ANALYZING"
         /\ error' = NULL
         /\ calls' = calls \cup {NewCall}
         /\ submitted' = submitted + 1
         /\ lastEvent' = Event(handler, "sent")
         /\ UNCHANGED << file, videoUrl, videoDuration, result, customInstruction,
                         generatedHistory, apiKey, metadataPending, historyStale,
                         landedSinceReset >>

\* The submit button: rendered unless ANALYZING, enabled unless SubmitDisabled.
Submit ==
    /\ ~MicrotaskPending
    /\ status # "ANALYZING"
    /\ ~SubmitDisabled(error, file, customInstruction)
    /\ HandleAnalyze("handleAnalyze")

\* handleAnotherSet: the button of the results view.
HandleAnotherSet ==
    /\ ~MicrotaskPending
    /\ status = "COMPLETED"
    /\ result # NullResult
    /\ HandleAnalyze("handleAnotherSet")

\* ------------------------------------------------------- RetryingTransport
\* blobToBase64 settles for a call with a file; on success the call goes on
\* to generateWithRetry's first generateContent.
EncodeReturns(c, ok) ==
    /\ ~MicrotaskPending
    /\ c.pc = "encoding"
    /\ calls' = (calls \ {c}) \cup
                { IF ok THEN [c EXCEPT !.pc = "call", !.attempts = 1]
                        ELSE [c EXCEPT !.pc = "rejected", !.thrown = MsgBlob] }
    /\ lastEvent' = Event("blobToBase64", IF ok THEN "ok" ELSE "error")
    /\ UNCHANGED << status, file, videoUrl, videoDuration, result, error, customInstruction,
                    generatedHistory, apiKey, metadataPending, submitted, historyStale,
                    landedSinceReset >>

\* generateContent throws `msg` inside generateWithRetry.
RemoteThrows(c, msg) ==
    /\ ~MicrotaskPending
    /\ c.pc = "call"
    /\ calls' = (calls \ {c}) \cup
                { IF ShouldRetry(c.retries, msg)
                  THEN [c EXCEPT !.pc = "delay"]
                  ELSE [c EXCEPT !.pc = "rejected", !.thrown = msg] }
    /\ lastEvent' = EventOf("generateWithRetry",
                            IF ShouldRetry(c.retries, msg) THEN "retry" ELSE "throw", msg)
    /\ UNCHANGED << status, file, videoUrl, videoDuration, result, error, customInstruction,
                    generatedHistory, apiKey, metadataPending, submitted, historyStale,
                    landedSinceReset >>

\* Variant of RemoteResolves that retries an empty or unparsable response.
RemoteResolvesRetrying(c, response) ==
    /\ ~MicrotaskPending
    /\ c.pc = "call"
    /\ calls' = (calls \ {c}) \cup
                { IF response.kind \in {"empty", "unparsable"} /\ c.retries > 0
                  THEN [c EXCEPT !.pc = "delay"]
                  ELSE [c EXCEPT !.pc = "resolved", !.response = response] }
    /\ lastEvent' = Event("generateWithRetry", "return")
    /\ UNCHANGED << status, file, videoUrl, videoDuration, result, error, customInstruction,
                    generatedHistory, apiKey, metadataPending, submitted, historyStale,
                    landedSinceReset >>

\* generateContent resolves with `response`.
RemoteResolves(c, response) ==
    /\ ~MicrotaskPending
    /\ c.pc = "call"
    /\ calls' = (calls \ {c}) \cup { [c EXCEPT !.pc = "resolved", !.response = response] }
    /\ lastEvent' = Event("generateWithRetry", "return")
    /\ UNCHANGED << status, file, videoUrl, videoDuration, result, error, customInstruction,
                    generatedHistory, apiKey, metadataPending, submitted, historyStale,
                    landedSinceReset >>

\* Variant of DelayElapsed whose timer never resolves the awaited promise.
DelayElapsedUnresolved(c) ==
    /\ ~MicrotaskPending
    /\ c.pc = "delay"
    /\ lastEvent' = Event("generateWithRetry", "recurse")
    /\ UNCHANGED << status, file, videoUrl, videoDuration, result, error, customInstruction,
                    generatedHistory, apiKey, metadataPending, calls, submitted, historyStale,
                    landedSinceReset >>

\* The retry timer expires: generateWithRetry(ai, params, retries - 1).
DelayElapsed(c) ==
    /\ ~MicrotaskPending
    /\ c.pc = "delay"
    /\ calls' = (calls \ {c}) \cup
                { [c EXCEPT !.pc = "call", !.retries = c.retries - 1,
                            !.attempts = c.attempts + 1, !.waited = c.waited + RetryDelayMs] }
    /\ lastEvent' = Event("generateWithRetry", "recurse")
    /\ UNCHANGED << status, file, videoUrl, videoDuration, result, error, customInstruction,
                    generatedHistory, apiKey, metadataPending, submitted, historyStale,
                    landedSinceReset >>

\* Variant of Outcome that swallows a parse error and returns an empty result.
OutcomeLenient(c) ==
    IF c.pc = "rejected" THEN [ok |-> FALSE, thrown |-> c.thrown, value |-> NullResult]
    ELSE IF c.response.kind = "empty" THEN [ok |-> FALSE, thrown |-> MsgNoResponse, value |-> NullResult]
    ELSE IF c.response.kind = "unparsable"
         THEN [ok |-> TRUE, thrown |-> NULL,
               value |-> << [transcription |-> "", generatedQuotes |-> << >>] >>]
    ELSE [ok |-> TRUE, thrown |-> NULL, value |-> c.response.value]

\* What the awaited analyzeVideoAndGenerateQuotes gives handleAnalyze: the
\* rethrown error, or the parsed response.
Outcome(c) ==
    IF c.pc = "rejected" THEN [ok |-> FALSE, thrown |-> c.thrown, value |-> NullResult]
    ELSE IF c.response.kind = "empty" THEN [ok |-> FALSE, thrown |-> MsgNoResponse, value |-> NullResult]
    ELSE IF c.response.kind = "unparsable" THEN [ok |-> FALSE, thrown |-> MsgSyntax, value |-> NullResult]
    ELSE [ok |-> TRUE, thrown |-> NULL, value |-> c.response.value]

\* The continuation of handleAnalyze after its await: the try block's tail
\* on success, the catch block on failure.
Land(c) ==
    /\ c.pc \in {"resolved", "rejected"}
    /\ calls' = calls \ {c}
    /\ IF Outcome(c).ok
       THEN LET quotes == Outcome(c).value[1].generatedQuotes IN
            /\ result' = Outcome(c).value
            /\ generatedHistory' = AppendHistory(generatedHistory, quotes)
            /\ status' = "COMPLETED"
            /\ historyStale' = historyStale \o [i \in 1..Len(quotes) |-> c.stale]
            /\ landedSinceReset' = Append(landedSinceReset, quotes)
            /\ lastEvent' = Event("land", "success")
            /\ UNCHANGED error
       ELSE /\ error' = UserMessage(Outcome(c).thrown)
            /\ status' = "ERROR"
            /\ lastEvent' = Event("land", "failure")
            /\ UNCHANGED << result, generatedHistory, historyStale, landedSinceReset >>
    /\ UNCHANGED << file, videoUrl, videoDuration, customInstruction, apiKey,
                    metadataPending, submitted >>

\* --------------------------------------------------------------- progress
\* Variant of ProgressEffect that does not snap to 100 on COMPLETED.
ProgressEffectNoSnap ==
    IF status' # status
    THEN /\ progress' = 0
         /\ currentProgress' = 0
         /\ progressTimer' = (status' = "ANALYZING")
    ELSE UNCHANGED << progress, currentProgress, progressTimer >>

\* Variant of ProgressEffect whose cleanup does not clear the interval.
ProgressEffectNoCleanup ==
    IF status' # status
    THEN /\ progress' = IF status' = "COMPLETED" THEN 100 * ProgressUnit ELSE 0
         /\ currentProgress' = 0
         /\ progressTimer' = (progressTimer \/ status' = "ANALYZING")
    ELSE UNCHANGED << progress, currentProgress, progressTimer >>

\* Variant of ProgressEffect that does not set progress on entering ANALYZING.
ProgressEffectNoRestart ==
    IF status' # status
    THEN /\ progress' = IF status' = "COMPLETED" THEN 100 * ProgressUnit
                        ELSE IF status' = "ANALYZING" THEN progress ELSE 0
         /\ currentProgress' = 0
         /\ progressTimer' = (status' = "ANALYZING")
    ELSE UNCHANGED << progress, currentProgress, progressTimer >>

\* The effect on [status]: it runs after a render in which status changed.
\* Its cleanup clears the interval of the previous run; entering ANALYZING
\* sets progress to 0 and starts a new interval with a counter at 0,
\* COMPLETED sets progress to 100, ERROR and IDLE set it to 0.
ProgressEffect ==
    IF status' # status
    THEN /\ progress' = IF status' = "COMPLETED" THEN 100 * ProgressUnit ELSE 0
         /\ currentProgress' = 0
         /\ progressTimer' = (status' = "ANALYZING")
    ELSE UNCHANGED << progress, currentProgress, progressTimer >>

\* Variant of UrlEffect whose cleanup revokes nothing.
UrlEffectNoRevoke ==
    objectUrls' = objectUrls \cup ({videoUrl'} \ {NULL})

\* The object URL a handler stored in videoUrl is live from its creation;
\* the effect on [videoUrl] runs after a render in which videoUrl changed,
\* and its cleanup revokes the URL of the previous render.
UrlEffect ==
    objectUrls' = (objectUrls \cup ({videoUrl'} \ {NULL}))
                  \ (IF videoUrl' # videoUrl THEN {videoUrl} ELSE {})

\* A task of the mounted VideoAnalyzer: the handler, the render and the
\* effects the render triggers.
InAnalyzer(Handler) ==
    /\ currentView = "CREATE"
    /\ Handler
    /\ ProgressEffect
    /\ UrlEffect
    /\ UNCHANGED << libraryVars, currentView >>

\* The increment of one interval callback, random being the value of
\* Math.random() in hundredths.
Increment(current, random) ==
    LET remaining == ProgressCeiling * ProgressUnit - current
        drawn == (remaining * 5 * random) \div 10000
    IN  IF drawn > MinIncrement THEN drawn ELSE MinIncrement

\* The interval callback of the progress effect, every 150 ms.
ProgressTick(random) ==
    /\ ~MicrotaskPending
    /\ progressTimer
    /\ IF currentProgress < ProgressPlateau * ProgressUnit
       THEN LET next == currentProgress + Increment(currentProgress, random)
            IN  /\ currentProgress' = next
                /\ progress' = IF next < ProgressCeiling * ProgressUnit
                               THEN next ELSE ProgressCeiling * ProgressUnit
       ELSE UNCHANGED << progress, currentProgress >>
    /\ lastEvent' = Event("progressTick", "")
    /\ UNCHANGED << status, file, videoUrl, videoDuration, result, error,
                    customInstruction, generatedHistory, apiKey, metadataPending,
                    calls, submitted, historyStale, landedSinceReset, progressTimer,
                    objectUrls, currentView >>
    /\ UNCHANGED libraryVars

Next ==
    \/ \E isVideo \in BOOLEAN : InAnalyzer(HandleFileChange(isVideo))
    \/ \E d \in ReportedDurations : InAnalyzer(OnVideoMetadataLoaded(d))
    \/ InAnalyzer(Reupload)
    \/ InAnalyzer(FullReset)
    \/ \E t \in TypedTopics : InAnalyzer(SetCustomInstruction(t))
    \/ \E t \in HOT_TOPICS : InAnalyzer(HandleTopicClick(t))
    \/ InAnalyzer(Submit)
    \/ InAnalyzer(HandleAnotherSet)
    \/ \E c \in calls : \E ok \in BOOLEAN : InAnalyzer(EncodeReturns(c, ok))
    \/ \E c \in calls : \E msg \in RemoteErrors : InAnalyzer(RemoteThrows(c, msg))
    \/ \E c \in calls : \E r \in Responses : InAnalyzer(RemoteResolves(c, r))
    \/ \E c \in calls : InAnalyzer(DelayElapsed(c))
    \/ \E c \in calls : InAnalyzer(Land(c))

Spec == Init /\ [][Next]_vars

\* The steps of the call with the given id that do not wait for the user:
\* the FileReader finishes, the remote call returns, the retry timer
\* expires, the continuation of handleAnalyze runs.
TransportStep(id) ==
    \E c \in calls :
        /\ c.id = id
        /\ \/ \E ok \in BOOLEAN : InAnalyzer(EncodeReturns(c, ok))
           \/ \E msg \in RemoteErrors : InAnalyzer(RemoteThrows(c, msg))
           \/ \E r \in Responses : InAnalyzer(RemoteResolves(c, r))
           \/ InAnalyzer(DelayElapsed(c))
           \/ InAnalyzer(Land(c))

\* Every remote call eventually returns, and the event loop runs the
\* FileReader callback, the 2000 ms timer and the promise continuations.
Fairness == \A id \in 1..MaxSubmits : WF_vars(TransportStep(id))

SpecLive == Init /\ [][Next]_vars /\ Fairness

\* The analyzer with a remote that may also answer with JSON that lacks a
\* property of the response schema.
NextSchema ==
    \/ Next
    \/ \E c \in calls : \E r \in DeviatingResponses : InAnalyzer(RemoteResolves(c, r))

SpecSchema == Init /\ [][NextSchema]_vars

\* ------------------------------------------------- QuoteLibrary handlers
\* refreshQuotes with the closure's category: setVisibleQuotes and
\* setTimeRemaining(120).
RefreshQuotes(category, draw) ==
    /\ visibleQuotes' = Slice(Shuffle(Pool(category), draw))
    /\ timeRemaining' = RotationPeriod

\* Variant of HandleCategoryChange without the effect that refreshes.
HandleCategoryChangeOnly(cat, draw) ==
    /\ selectedCategory' = cat
    /\ UNCHANGED << searchTerm, visibleQuotes, timeRemaining >>
    /\ lastEvent' = Event("handleCategoryChange", "same")
    /\ UNCHANGED << analyzerVars, currentView >>

\* handleCategoryChange: a category tab is clicked.  A new category gives
\* refreshQuotes a new identity, so the effect on [refreshQuotes] runs it
\* and the interval is set anew; the same category renders nothing.
HandleCategoryChange(cat, draw) ==
    /\ selectedCategory' = cat
    /\ IF cat # selectedCategory
       THEN /\ RefreshQuotes(cat, draw)
            /\ lastEvent' = Event("handleCategoryChange", "refresh")
       ELSE /\ UNCHANGED << visibleQuotes, timeRemaining >>
            /\ lastEvent' = Event("handleCategoryChange", "same")
    /\ UNCHANGED searchTerm
    /\ UNCHANGED << analyzerVars, currentView >>

\* The refresh button, rendered while no search term is set.
ManualRefresh(draw) ==
    /\ searchTerm = << >>
    /\ RefreshQuotes(selectedCategory, draw)
    /\ lastEvent' = Event("refreshQuotes", "button")
    /\ UNCHANGED << searchTerm, selectedCategory >>
    /\ UNCHANGED << analyzerVars, currentView >>

\* Variant of TimerTick that rotates one tick later, at a countdown of 0.
TimerTickOffByOne(draw) ==
    /\ IF timeRemaining <= 0
       THEN /\ RefreshQuotes(selectedCategory, draw)
            /\ lastEvent' = Event("timerTick", "refresh")
       ELSE /\ timeRemaining' = timeRemaining - 1
            /\ lastEvent' = Event("timerTick", "countdown")
            /\ UNCHANGED visibleQuotes
    /\ UNCHANGED << searchTerm, selectedCategory >>
    /\ UNCHANGED << analyzerVars, currentView >>

\* The callback of the 1000 ms interval.
TimerTick(draw) ==
    /\ IF timeRemaining <= 1
       THEN /\ RefreshQuotes(selectedCategory, draw)
            /\ lastEvent' = Event("timerTick", "refresh")
       ELSE /\ timeRemaining' = timeRemaining - 1
            /\ lastEvent' = Event("timerTick", "countdown")
            /\ UNCHANGED visibleQuotes
    /\ UNCHANGED << searchTerm, selectedCategory >>
    /\ UNCHANGED << analyzerVars, currentView >>

\* Variant of SetSearchTerm that refreshes when the term is cleared.
SetSearchTermRefreshing(term) ==
    /\ term # searchTerm
    /\ searchTerm' = term
    /\ lastEvent' = Event("setSearchTerm", "")
    /\ IF term = << >>
       THEN \E draw \in ShuffleDraws : RefreshQuotes(selectedCategory, draw)
       ELSE UNCHANGED << visibleQuotes, timeRemaining >>
    /\ UNCHANGED selectedCategory
    /\ UNCHANGED << analyzerVars, currentView >>

\* The search field changes.
SetSearchTerm(term) ==
    /\ term # searchTerm
    /\ searchTerm' = term
    /\ lastEvent' = Event("setSearchTerm", "")
    /\ UNCHANGED << selectedCategory, visibleQuotes, timeRemaining >>
    /\ UNCHANGED << analyzerVars, currentView >>

\* QuoteLibrary after its mount effects: the first refreshQuotes has run.
InitLibrary ==
    /\ status = "IDLE"
    /\ file = NULL
    /\ videoUrl = NULL
    /\ videoDuration = 0
    /\ result = NullResult
    /\ error = NULL
    /\ customInstruction = << >>
    /\ generatedHistory = << >>
    /\ apiKey = TRUE
    /\ metadataPending = FALSE
    /\ calls = {}
    /\ submitted = 0
    /\ historyStale = << >>
    /\ landedSinceReset = << >>
    /\ lastEvent = Event("init", "")
    /\ progress = 0
    /\ currentProgress = 0
    /\ progressTimer = FALSE
    /\ searchTerm = << >>
    /\ selectedCategory = ALL
    /\ \E draw \in ShuffleDraws : visibleQuotes = Slice(Shuffle(Pool(ALL), draw))
    /\ timeRemaining = RotationPeriod
    /\ objectUrls = {}
    /\ currentView = "LIBRARY"

NextLibrary ==
    \/ \E cat \in CATEGORIES : \E draw \in ShuffleDraws : HandleCategoryChange(cat, draw)
    \/ \E draw \in ShuffleDraws : ManualRefresh(draw)
    \/ \E draw \in ShuffleDraws : TimerTick(draw)
    \/ \E term \in SearchTerms : SetSearchTerm(term)

SpecLibrary == InitLibrary /\ [][NextLibrary]_vars

\* The progress bar while requests are answered: the steps that change the
\* status, and the interval callback with the values Math.random() takes.
RandomHundredths == {0, 99}

InitProgress == Init /\ apiKey

NextProgress ==
    \/ InAnalyzer(HandleFileChange(TRUE))
    \/ \E t \in HOT_TOPICS : InAnalyzer(HandleTopicClick(t))
    \/ InAnalyzer(Submit)
    \/ InAnalyzer(HandleAnotherSet)
    \/ InAnalyzer(FullReset)
    \/ \E c \in calls : InAnalyzer(EncodeReturns(c, TRUE))
    \/ \E c \in calls : InAnalyzer(RemoteThrows(c, MsgAuth))
    \/ \E c \in calls : \E r \in Responses : InAnalyzer(RemoteResolves(c, r))
    \/ \E c \in calls : InAnalyzer(Land(c))
    \/ \E random \in RandomHundredths : ProgressTick(random)

SpecProgress == InitProgress /\ [][NextProgress]_vars

\* Layout's library button while VideoAnalyzer is mounted: App unmounts it
\* and mounts QuoteLibrary.  The cleanups of VideoAnalyzer's effects run (the
\* object URL is revoked, the interval cleared), its state is discarded, and
\* the continuations of its pending calls set the state of a component that
\* is gone, which changes nothing.  QuoteLibrary's effect on mount refreshes.
LeaveAnalyzer(draw) ==
    /\ ~MicrotaskPending
    /\ currentView = "CREATE"
    /\ currentView' = "LIBRARY"
    /\ objectUrls' = objectUrls \ {videoUrl}
    /\ progressTimer' = FALSE
    /\ progress' = 0
    /\ currentProgress' = 0
    /\ status' = "IDLE"
    /\ file' = NULL
    /\ videoUrl' = NULL
    /\ videoDuration' = 0
    /\ result' = NullResult
    /\ error' = NULL
    /\ customInstruction' = << >>
    /\ generatedHistory' = << >>
    /\ metadataPending' = FALSE
    /\ calls' = {}
    /\ historyStale' = << >>
    /\ landedSinceReset' = << >>
    /\ searchTerm' = << >>
    /\ selectedCategory' = ALL
    /\ RefreshQuotes(ALL, draw)
    /\ lastEvent' = Event("onViewChange", "LIBRARY")
    /\ UNCHANGED << apiKey, submitted >>

\* Layout's create button while QuoteLibrary is mounted: App unmounts it and
\* mounts a VideoAnalyzer in its initial state.
EnterAnalyzer ==
    /\ currentView = "LIBRARY"
    /\ currentView' = "CREATE"
    /\ searchTerm' = << >>
    /\ selectedCategory' = ALL
    /\ visibleQuotes' = << >>
    /\ timeRemaining' = RotationPeriod
    /\ lastEvent' = Event("onViewChange", "CREATE")
    /\ UNCHANGED analyzerVars

\* The object URLs over the life of VideoAnalyzer: the steps that load,
\* replace and clear a file, one answered request, and the view switches.
NextHandles ==
    \/ \E isVideo \in BOOLEAN : InAnalyzer(HandleFileChange(isVideo))
    \/ \E d \in ReportedDurations : InAnalyzer(OnVideoMetadataLoaded(d))
    \/ InAnalyzer(Reupload)
    \/ InAnalyzer(FullReset)
    \/ \E t \in HOT_TOPICS : InAnalyzer(HandleTopicClick(t))
    \/ InAnalyzer(Submit)
    \/ InAnalyzer(HandleAnotherSet)
    \/ \E c \in calls : InAnalyzer(EncodeReturns(c, TRUE))
    \/ \E c \in calls : \E r \in Responses : InAnalyzer(RemoteResolves(c, r))
    \/ \E c \in calls : InAnalyzer(Land(c))
    \/ \E draw \in ShuffleDraws : LeaveAnalyzer(draw)
    \/ EnterAnalyzer

SpecHandles == InitProgress /\ [][NextHandles]_vars

\* ===================================================================
\* Properties
\* ===================================================================

\* The errors generateWithRetry retries, as the transport classifies them.
TransientErrors == {MsgRpc, Msg503}

\* C1: at most one generation request is in flight at any time: no call of
\* the service is pending while another one has not yet landed.
C1_SingleRequestInFlight == Cardinality(calls) <= 1

\* C2: the status only moves along Idle->Analyzing, Analyzing->Completed,
\* Analyzing->Failed, Completed->Analyzing, Failed->Analyzing and the resets
\* back to Idle; every step that lands a result (sets Completed or Failed)
\* starts from Analyzing.
StatusEdges ==
    { <<"IDLE", "ANALYZING">>, <<"ANALYZING", "COMPLETED">>, <<"ANALYZING", "ERROR">>,
      <<"COMPLETED", "ANALYZING">>, <<"ERROR", "ANALYZING">> }
    \cup { <<s, "IDLE">> : s \in AnalysisStatus }
C2_StatusEdges ==
    [][ /\ (status' # status => <<status, status'>> \in StatusEdges)
        /\ (MicrotaskPending => status = "ANALYZING") ]_vars

\* C3: one send makes at most 3 remote calls; a retry happens only after a
\* transient failure with budget left, each retry is preceded by the 2-second
\* delay, and a transient error is rethrown only by the third attempt, which
\* rethrows the error it caught.
C3_RetryBound ==
    /\ \A c \in calls :
          /\ c.attempts <= 3
          /\ c.attempts >= 1 => /\ c.retries = 2 - (c.attempts - 1)
                                /\ c.waited = 2000 * (c.attempts - 1)
          /\ (c.pc = "rejected" /\ c.thrown \in TransientErrors) => c.attempts = 3
    /\ lastEvent.name = "generateWithRetry" /\ lastEvent.outcome = "retry"
          => lastEvent.detail \in TransientErrors
    /\ lastEvent.name = "generateWithRetry" /\ lastEvent.outcome = "throw"
          => \E c \in calls : c.pc = "rejected" /\ c.thrown = lastEvent.detail

\* C3 witness: a send whose three attempts all failed transiently rethrows
\* after two delays.
C3_Witness ==
    \E c \in calls :
        /\ c.pc = "rejected" /\ c.thrown \in TransientErrors
        /\ c.attempts = 3 /\ c.waited = 4000
        /\ lastEvent.outcome = "throw" /\ lastEvent.detail = c.thrown

\* C4: a non-transient error thrown by the remote call on any attempt is
\* rethrown at once: the send does not enter the delay and makes no further
\* remote call.
C4_FatalNotRetried ==
    /\ lastEvent.name = "generateWithRetry" /\ lastEvent.outcome \in {"retry", "throw"}
           /\ lastEvent.detail \notin TransientErrors
          => /\ lastEvent.outcome = "throw"
             /\ \E c \in calls : /\ c.pc = "rejected" /\ c.thrown = lastEvent.detail
                                  /\ c.waited = 2000 * (c.attempts - 1)
    /\ \A c \in calls : c.pc = "rejected" /\ c.attempts >= 1 /\ c.attempts < 3
          => c.thrown \notin TransientErrors

\* C4 witness: the second attempt of a send throws a fatal error after the
\* first failed transiently.
C4_Witness ==
    \E c \in calls :
        /\ c.pc = "rejected" /\ c.thrown = MsgAuth /\ c.attempts = 2
        /\ lastEvent.outcome = "throw"

\* C5: every quote in generatedHistory comes from a call submitted after the
\* most recent reset event.
C5_NoStaleQuotes == \A i \in 1..Len(historyStale) : ~historyStale[i]

\* A call whose failure is about to land: the service rethrew, or the
\* response is empty or does not parse.
FailurePending(c) ==
    \/ c.pc = "rejected"
    \/ c.pc = "resolved" /\ c.response.kind \in {"empty", "unparsable"}

C7_AppendOnSuccess ==
    [][ \A c \in calls :
          c.pc = "resolved" /\ c.response.kind = "json"
            => generatedHistory' = generatedHistory \o c.response.value[1].generatedQuotes ]_vars

\* C7 witness: a second successful generation landed on a non-empty
\* history and repeated its quotes.
C7_Witness ==
    /\ lastEvent.name = "land" /\ lastEvent.outcome = "success"
    /\ generatedHistory = <<"q2", "q1", "q2", "q1">>

\* C8: generatedHistory is empty initially and right after the acceptance
\* of a video file, reupload, a topic chip, and full reset.
C8_EmptyAfterReset ==
    ( \/ lastEvent.name \in {"init", "reupload", "handleTopicClick", "fullReset"}
      \/ lastEvent.name = "handleFileChange" /\ lastEvent.outcome = "accepted" )
    => generatedHistory = << >>

\* C8 witness: reupload has just run in a state that still shows the result
\* whose quotes had been recorded.
C8_Witness ==
    /\ lastEvent.name = "reupload"
    /\ result # NullResult
    /\ result[1].generatedQuotes # << >>
    /\ generatedHistory = << >>

\* The call the last accepted submit created.
LastCall == { c \in calls : c.id = submitted }

\* "Another set" has just been accepted in a context in which a generation
\* has succeeded since the last reset.
AnotherSetRepeat ==
    /\ lastEvent.name = "handleAnotherSet" /\ lastEvent.outcome = "sent"
    /\ landedSinceReset # << >>

\* C9 as stated: the avoid list an "another set" repeat sends is the history,
\* which is the concatenation of the quotes of the successful generations
\* since the last reset, and the history is not empty.
C9_Original ==
    AnotherSetRepeat
    => /\ \A c \in LastCall : c.params.avoid = generatedHistory
       /\ generatedHistory = Flatten(landedSinceReset)
       /\ generatedHistory # << >>

\* C9 amended: as C9, the history being non-empty when one of those
\* generations returned at least one quote.
C9_AvoidListIsHistory ==
    AnotherSetRepeat
    => /\ LastCall # {}
       /\ \A c \in LastCall : c.params.avoid = generatedHistory
       /\ generatedHistory = Flatten(landedSinceReset)
       /\ (\E i \in 1..Len(landedSinceReset) : landedSinceReset[i] # << >>)
            => generatedHistory # << >>

\* C9 witness: "another set" sent a non-empty avoid list.
C9_Witness ==
    /\ AnotherSetRepeat
    /\ \E c \in LastCall : c.params.avoid = <<"q2", "q1">>

\* A topic that is empty or consists of whitespace only.
Blank(topic) == \A i \in 1..Len(topic) : topic[i] = " "

\* This step is a run of handleAnalyze.
AnalyzeStep == lastEvent'.name \in {"handleAnalyze", "handleAnotherSet"}

\* This step hands a new call to the service.
CallCreated ==
    /\ status' = "ANALYZING"
    /\ \E c \in calls' : c \notin calls /\ c.id = submitted'

DurationReported == file # NULL /\ ~metadataPending

\* C11: while the loaded file's reported duration is over 300 seconds every
\* run of handleAnalyze is refused with the status and the calls unchanged,
\* a topic being present or not; a reported duration of 300 seconds or less
\* does not block the submit, which is sent.
C11_OverLimitBlocks ==
    [][ (AnalyzeStep /\ DurationReported)
        => IF videoDuration > 300
           THEN /\ lastEvent'.outcome = "overlimit"
                /\ status' = status
                /\ calls' = calls
                /\ submitted' = submitted
                /\ error' = MsgTooLongSubmit
           ELSE /\ lastEvent'.outcome = "sent"
                /\ CallCreated ]_vars

\* C11 witness: a submit with a topic and a file reported at 301 seconds
\* has been refused.
C11_Witness ==
    /\ lastEvent.name = "handleAnalyze" /\ lastEvent.outcome = "overlimit"
    /\ DurationReported
    /\ videoDuration = 301
    /\ ~Blank(customInstruction)
    /\ calls = {}

\* C12: the progress value is 100 whenever the status is COMPLETED and 0
\* whenever it is ERROR or IDLE, and no step that keeps the status at
\* ANALYZING lowers it.
C12_ProgressByStatus ==
    /\ [](/\ status = "COMPLETED" => progress = 100 * ProgressUnit
          /\ status \in {"ERROR", "IDLE"} => progress = 0)
    /\ [][ (status = "ANALYZING" /\ status' = "ANALYZING")
           => progress' >= progress ]_vars

\* C12 witness: the interval has carried the progress of a pending request
\* up to the plateau.
C12_Witness ==
    /\ status = "ANALYZING"
    /\ lastEvent.name = "progressTick"
    /\ progress >= ProgressPlateau * ProgressUnit

\* The messages of the validation faults.
ValidationFaults == {MsgNotVideo, MsgTooLongLoaded, MsgNeedInput, MsgTooLongSubmit}

\* This step sets the error message shown to the user.
SetsError ==
    /\ error' # NULL
    /\ \/ error' # error
       \/ lastEvent'.outcome \in {"failure", "rejected", "missing", "overlimit"}

\* C13 as stated: whenever an error message is set, the status is ERROR.
C13_Original == error # NULL => status = "ERROR"

\* C13 amended: a step that surfaces the error of a failed generation
\* (transport or fatal) sets the status to ERROR; a step that surfaces a
\* validation fault (non-video file, missing input, over-duration file)
\* sets the message and leaves the status as it was.
C13_FailedOnGenerationError ==
    [][ SetsError
        => IF lastEvent'.name = "land"
           THEN status' = "ERROR" /\ error' \notin ValidationFaults
           ELSE status' = status /\ error' \in ValidationFaults ]_vars

\* C13 witness: a non-video file has been refused while the results of a
\* generation are shown.
C13_Witness ==
    /\ lastEvent.name = "handleFileChange" /\ lastEvent.outcome = "rejected"
    /\ error = MsgNotVideo
    /\ status = "COMPLETED"

\* The error a pending failure carries into handleAnalyze's catch block.
ThrownBy(c) ==
    IF c.pc = "rejected" THEN c.thrown
    ELSE IF c.response.kind = "empty" THEN MsgNoResponse ELSE MsgSyntax

\* This step is the catch block of handleAnalyze for the call c.
Surfaces(c) == FailurePending(c) /\ calls' = calls \ {c}

\* C14 as stated: a surfaced failure of the class generateWithRetry
\* retries carries the rewritten message, every other surfaced failure the
\* description of the underlying error.
C14_Original ==
    [][ \A c \in calls :
          Surfaces(c)
          => error' = IF ThrownBy(c) \in TransientErrors THEN MsgRewritten
                      ELSE ThrownBy(c) ]_vars

\* C14 amended: a surfaced failure whose message contains "Rpc failed",
\* "xhr error" or "code: 6" carries the rewritten message, retried or not;
\* every other surfaced failure, a 503 failure after the retries included,
\* carries the description of the underlying error, or the default text when
\* the error has no message.
C14_RewriteBySignature ==
    [][ \A c \in calls :
          Surfaces(c)
          => error' = IF ThrownBy(c) \in {MsgRpc, MsgXhr} THEN MsgRewritten
                      ELSE IF ThrownBy(c) = "" THEN MsgUnknown
                      ELSE ThrownBy(c) ]_vars

\* C14 witness: a 503 failure has been surfaced, after the retries, with its
\* own description.
C14_Witness ==
    /\ lastEvent.name = "land" /\ lastEvent.outcome = "failure"
    /\ status = "ERROR"
    /\ error = Msg503

\* C15: the landing of a response that parses as JSON but lacks a property
\* of the schema sets the status to ERROR, never to COMPLETED, and appends
\* nothing to generatedHistory.
C15_DeviationIsFatal ==
    [][ \A c \in calls :
          (c.pc = "resolved" /\ c.response \in DeviatingResponses /\ calls' = calls \ {c})
          => /\ status' = "ERROR"
             /\ generatedHistory' = generatedHistory ]_vars

\* The request the user has prepared passes both checks of handleAnalyze.
ValidRequest ==
    /\ file # NULL \/ ~Blank(customInstruction)
    /\ ~(file # NULL /\ videoDuration > 300)

\* A control that runs handleAnalyze is rendered and enabled: the submit
\* button, or "another set" in the results view.
SubmitOffered ==
    \/ status # "ANALYZING" /\ ~SubmitDisabled(error, file, customInstruction)
    \/ status = "COMPLETED" /\ result # NullResult

\* C16: in COMPLETED and in ERROR, with a valid request prepared, a control
\* that submits it is available to the user (and handleAnalyze then sets the
\* status to ANALYZING), in particular after a failed media-only generation
\* with no input changed.
C16_ResubmitAvailable ==
    (status \in {"COMPLETED", "ERROR"} /\ ~MicrotaskPending /\ ValidRequest)
    => SubmitOffered

\* The call with the given id has been made and has not landed.
InFlight(id) == \E c \in calls : c.id = id

Partition(category) ==
    { BUILT_IN_QUOTES[i] : i \in { j \in 1..Len(BUILT_IN_QUOTES) :
          category = ALL \/ BUILT_IN_QUOTES[j].category = category } }

\* The sequence is a refresh over the category: min(8, size of the
\* partition) pairwise distinct records, all of the partition.
IsRefreshOf(visible, category) ==
    /\ Len(visible) = IF Cardinality(Partition(category)) < 8
                      THEN Cardinality(Partition(category)) ELSE 8
    /\ \A i \in 1..Len(visible) : visible[i] \in Partition(category)
    /\ \A i, j \in 1..Len(visible) : i # j => visible[i] # visible[j]

\* C18: the visible set is always the outcome of a refresh over the
\* selected category: exactly min(8, size of the partition) pairwise
\* distinct records of that partition (of the whole collection for ALL).
C18_RefreshSize == IsRefreshOf(visibleQuotes, selectedCategory)

\* C18 witness: the rotation has put 8 of the 20 records on display, in an
\* order other than that of the collection.
C18_Witness ==
    /\ lastEvent.name = "timerTick" /\ lastEvent.outcome = "refresh"
    /\ selectedCategory = ALL
    /\ Len(visibleQuotes) = 8
    /\ visibleQuotes[1].id > visibleQuotes[2].id

\* C19: a step that selects a different category replaces the visible set
\* by a refresh over the new category and sets the countdown to 120, so
\* every visible record is of the new category.
C19_CategoryChangeRefreshes ==
    [][ selectedCategory' # selectedCategory
        => /\ IsRefreshOf(visibleQuotes', selectedCategory')
           /\ timeRemaining' = 120
           /\ \A i \in 1..Len(visibleQuotes') :
                selectedCategory' = ALL \/ visibleQuotes'[i].category = selectedCategory' ]_vars

\* C19 witness: the 3-record category has just been selected in the middle
\* of a countdown and its 3 records are visible.
C19_Witness ==
    /\ lastEvent.name = "handleCategoryChange" /\ lastEvent.outcome = "refresh"
    /\ selectedCategory = "marriage"
    /\ Len(visibleQuotes) = 3
    /\ \A i \in 1..3 : visibleQuotes[i].category = "marriage"
    /\ timeRemaining = 120

\* Two characters that differ at most in case.
SameLetter(a, b) ==
    \/ a = b
    \/ << a, b >> \in { <<"a", "A">>, <<"A", "a">>, <<"b", "B">>, <<"B", "b">>,
                        <<"c", "C">>, <<"C", "c">> }

\* The text contains the term, case ignored.
ContainsIgnoringCase(text, term) ==
    \E offset \in 0..(Len(text) - Len(term)) :
        \A i \in 1..Len(term) : SameLetter(text[offset + i], term[i])

\* What the view shows.
Displayed == DisplayQuotes(searchTerm, visibleQuotes)

\* The records of the whole collection, in its order, whose text contains
\* the term, case ignored.
Matching(term) ==
    SelectSeq(BUILT_IN_QUOTES, LAMBDA q : ContainsIgnoringCase(q.text, term))

\* C20: while the search term is not empty the displayed records are
\* exactly the records of the whole collection whose text contains the
\* term, case ignored: they depend on the term alone, so neither the
\* selected category nor an interval tick, a refresh or a category change
\* alters them.
C20_SearchSupersedes == searchTerm # << >> => Displayed = Matching(searchTerm)

\* C20 witness: with a mixed-case term set and the 3-record category
\* selected, the rotation has just replaced the visible set, and records of
\* another category are displayed.
C20_Witness ==
    /\ lastEvent.name = "timerTick" /\ lastEvent.outcome = "refresh"
    /\ searchTerm = <<"a", "B">>
    /\ selectedCategory = "marriage"
    /\ \E k \in 1..Len(Displayed) : Displayed[k].category = "mortgage"
    /\ \E k \in 1..Len(Displayed) : Displayed[k].text = <<"A", "b">>

\* C21: with the credential absent no submit sets the status to ANALYZING
\* and no request fails for the missing credential.
C21_NoKeyNoRequest ==
    ~apiKey => (status # "ANALYZING" /\ error # MsgNoKey)

\* C22: from the acceptance of a file until the video element reports its
\* duration, no submit is refused for an over-limit file, whatever the
\* duration of the file loaded before was.
C22_UnknownDurationNotBlocking ==
    (file # NULL /\ metadataPending)
    => ~(lastEvent.name \in {"handleAnalyze", "handleAnotherSet"}
         /\ lastEvent.outcome = "overlimit")

\* C23: when generateContent resolves, the call leaves generateWithRetry
\* with the attempts made so far, whatever the response; and a call that
\* resolved with an empty or unparsable response lands next, as a failure
\* with the status ERROR, without another attempt.
C23_BadResponseNotRetried ==
    [][ \A c \in calls :
          /\ (c.pc = "call" /\ lastEvent'.outcome = "return"
                /\ \A d \in calls' : d.id = c.id => d # c)
              => \E d \in calls' : /\ d.id = c.id
                                    /\ d.pc = "resolved"
                                    /\ d.attempts = c.attempts
          /\ (c.pc = "resolved" /\ c.response.kind \in {"empty", "unparsable"})
              => /\ \A d \in calls' : d.id # c.id
                 /\ status' = "ERROR"
                 /\ error' \in {MsgNoResponse, MsgSyntax} ]_vars

\* C23 witness: the first attempt of a request returned an empty response
\* and the request has failed with no other request made.
C23_Witness ==
    /\ lastEvent.name = "land" /\ lastEvent.outcome = "failure"
    /\ error = MsgNoResponse
    /\ status = "ERROR"
    /\ submitted = 1
    /\ calls = {}

\* C24: the interval of the progress bar exists exactly while the status is
\* ANALYZING, its callback runs only in ANALYZING, and outside ANALYZING the
\* progress value changes only when the status changes.
C24_TimerOnlyWhileAnalyzing ==
    [][ /\ progressTimer' <=> (status' = "ANALYZING")
        /\ lastEvent'.name = "progressTick"
           => (status = "ANALYZING" /\ status' = "ANALYZING")
        /\ (status # "ANALYZING" /\ status' = status) => progress' = progress ]_vars

\* C24 witness: a file upload took the status from ANALYZING to IDLE while
\* the request is still pending, and the interval is gone.
C24_Witness ==
    /\ lastEvent.name = "handleFileChange"
    /\ status = "IDLE"
    /\ calls # {}
    /\ ~progressTimer
    /\ progress = 0

\* C25: every entry into ANALYZING sets the progress to 0, and while the
\* status is ANALYZING the progress is within 0..95.
C25_RestartAndRange ==
    [][ /\ (status # "ANALYZING" /\ status' = "ANALYZING") => progress' = 0
        /\ status' = "ANALYZING"
           => (progress' >= 0 /\ progress' <= ProgressCeiling * ProgressUnit) ]_vars

\* C25 witness: ANALYZING was entered from COMPLETED, where the progress
\* was 100, and the progress is 0.
C25_Witness ==
    /\ lastEvent.name = "handleAnotherSet"
    /\ status = "ANALYZING"
    /\ result # NullResult
    /\ progress = 0
    /\ progressTimer

\* C26: after every step the live object URLs are exactly the URL of the
\* loaded file, if any; none is live while VideoAnalyzer is unmounted; and
\* a rejected file creates none.
C26_HandlesReleased ==
    [][ /\ objectUrls' = {videoUrl'} \ {NULL}
        /\ currentView' # "CREATE" => objectUrls' = {}
        /\ lastEvent' = Event("handleFileChange", "rejected")
           => objectUrls' = objectUrls ]_vars

\* C26 witness: a file has replaced another one whose duration had been
\* reported, and only the URL of the new file is live.
C26_Witness ==
    /\ lastEvent = Event("handleFileChange", "accepted")
    /\ metadataPending
    /\ videoDuration = DurationLimit
    /\ videoUrl # NULL
    /\ objectUrls = {videoUrl}

\* C27: the countdown stays within 1..120; an interval tick at a countdown
\* above 1 lowers it by one and leaves the visible set; the tick at 1 puts
\* a refresh over the selected category on display and the countdown at
\* 120.  So 120 ticks without a user action separate two rotations.
C27_RotationPeriod ==
    [][ /\ timeRemaining' \in 1..RotationPeriod
        /\ lastEvent'.name = "timerTick"
           => /\ selectedCategory' = selectedCategory
              /\ IF timeRemaining = 1
                 THEN /\ timeRemaining' = 120
                      /\ IsRefreshOf(visibleQuotes', selectedCategory)
                      /\ lastEvent'.outcome = "refresh"
                 ELSE /\ timeRemaining' = timeRemaining - 1
                      /\ visibleQuotes' = visibleQuotes
                      /\ lastEvent'.outcome = "countdown" ]_vars

\* C27 witness: the tick at a countdown of 1 has rotated the visible set
\* within the 5-record category.
C27_Witness ==
    /\ lastEvent = Event("timerTick", "refresh")
    /\ selectedCategory = "workplace"
    /\ Len(visibleQuotes) = 5
    /\ \A i \in 1..5 : visibleQuotes[i].category = "workplace"
    /\ timeRemaining = 120

\* C28: a step that changes the search term leaves the visible set, the
\* selected category and the countdown; and with the term cleared the
\* display is the visible set as the last rotation left it.
C28_SearchFrame ==
    [][ searchTerm' # searchTerm
        => /\ visibleQuotes' = visibleQuotes
           /\ selectedCategory' = selectedCategory
           /\ timeRemaining' = timeRemaining
           /\ searchTerm' = << >>
              => DisplayQuotes(searchTerm', visibleQuotes') = visibleQuotes ]_vars

\* C28 witness: the search term has just been cleared in the middle of a
\* countdown, with a category other than ALL selected.
C28_Witness ==
    /\ lastEvent.name = "setSearchTerm"
    /\ searchTerm = << >>
    /\ selectedCategory = "money"
    /\ timeRemaining < RotationPeriod
    /\ DisplayQuotes(searchTerm, visibleQuotes) = visibleQuotes

\* C29: a step that rejects a file for its content type sets the
\* validation message and leaves the loaded file, its object URL, the live
\* object URLs, the status, the result and the generated history.
C29_RejectionFrame ==
    [][ lastEvent' = Event("handleFileChange", "rejected")
        => /\ error' = MsgNotVideo
           /\ UNCHANGED << file, videoUrl, objectUrls, status, result,
                           generatedHistory >> ]_vars

\* C29 witness: a file has been rejected while the quotes of a generation
\* are shown, and they are still there.
C29_Witness ==
    /\ lastEvent = Event("handleFileChange", "rejected")
    /\ error = MsgNotVideo
    /\ file = NULL
    /\ result # NullResult
    /\ generatedHistory # << >>

\* C30: every step that changes the topic field empties the generated
\* history.
C30_TopicChangeResetsHistory ==
    [][ customInstruction' # customInstruction => generatedHistory' = << >> ]_vars

\* C31: whenever the status is COMPLETED a result is stored.
C31_CompletedHasResult == status = "COMPLETED" => result # NullResult

\* C31 witness: the file was removed by reupload while the quotes of its
\* generation are shown; the status is still COMPLETED and the result is
\* still stored.
C31_Witness ==
    /\ lastEvent.name = "reupload"
    /\ status = "COMPLETED"
    /\ file = NULL
    /\ result # NullResult

====
